---- MODULE Spec2Model ----
(***************************************************************************)
(* Model of docker/api/client.py (APIClient): construction and version     *)
(* resolution, URL building, status checking on the result paths, stream   *)
(* mode selection, the two multiplexed-frame decoders, the chunked stream  *)
(* helper and _disable_socket_timeout.                                     *)
(*                                                                         *)
(* Four specifications share the module; each drives one group of          *)
(* variables and leaves the others at their initial values:                *)
(*   SpecDemux   - _multiplexed_buffer_helper,                             *)
(*                 _multiplexed_response_stream_helper, _stream_helper     *)
(*   SpecSession - __init__, _retrieve_server_version, _url,               *)
(*                 _get_result_tty                                         *)
(*   SpecResult  - _raise_for_status and every result path                 *)
(*   SpecSocket  - _disable_socket_timeout                                 *)
(***************************************************************************)
EXTENDS Integers, Sequences, FiniteSets

VARIABLES
    \* ---- demultiplexer (SpecDemux) ----
    mode,        \* which generator runs: "buffered", "stream", "chunked"
    frames,      \* what the daemon sent: sequence of [channel, payload]
    fault,       \* how the wire bytes deviate from the well-formed encoding
    wire,        \* the response body: response.content / response.raw
    pc,          \* position of the generator
    walker,      \* _multiplexed_buffer_helper: walker
    rpos,        \* bytes consumed so far from response.raw
    header,      \* the last header read
    length,      \* length unpacked from the last header
    data,        \* _stream_helper: the bytes read so far for the next chunk
    yielded,     \* the chunks the generator has yielded, in order
    yieldHdr,    \* for each yielded chunk, the header it was read under
    reads,       \* number of response.raw.read calls issued
    pulls,       \* number of next() calls made by the consumer
    pullReads,   \* read calls issued since the last next()
    cidx,        \* _stream_helper: index of the HTTP chunk being read
    chunk_left,  \* _stream_helper: reader._fp.chunk_left
    joined       \* _get_result_tty: sep.join(...) of the buffered chunks

demuxVars == <<mode, frames, fault, wire, pc, walker, rpos, header, length,
               data, yielded, yieldHdr, reads, pulls, pullReads, cidx,
               chunk_left, joined>>

\* ---- _disable_socket_timeout (SpecSocket) ----
VARIABLES
    sockets,       \* sockets = [socket, getattr(socket, '_sock', None)]
    orig,        \* the sockets as they were when the call began
    sidx         \* index of the next element of the for loop (3: returned)

sockVars == <<sockets, orig, sidx>>

\* ---- status checking on the result paths (SpecResult) ----
VARIABLES
    resp,        \* the response: status code, whether chunked, its body
    call,        \* the result path taken and its option
    rpc,         \* "called", "open" (a generator handing out data),
                 \* "done" (returned / exhausted), "raised" (APIError)
    delivered    \* the body data that has reached the caller

resVars == <<resp, call, rpc, delivered>>

\* ---- construction, URLs and stream mode selection (SpecSession) ----
VARIABLES
    args,        \* the arguments of __init__: base_url, tls, version
    platform,    \* IS_WINDOWS_PLATFORM and whether NpipeAdapter was imported
    ipc,         \* position in __init__, then "ready" or "failed"
    error,       \* the exception __init__ raised, "" if none
    parsed,      \* what utils.parse_host returned, Unparsed before
    base_url,    \* self.base_url
    adapters,    \* the adapters mounted on the session: <<prefix, adapter>>
    api_version, \* self._version, Unset before it is assigned
    reply,       \* the daemon's answer to the version request
    netcalls,    \* number of requests sent to the daemon
    warned,      \* number of minimum-version warnings issued
    lastCall     \* the latest _url or _get_result_tty call and its result

sessVars == <<args, platform, ipc, error, parsed, base_url, adapters,
              api_version, reply, netcalls, warned, lastCall>>

vars == <<demuxVars, sockVars, resVars, sessVars>>

notDemux == <<sockVars, resVars, sessVars>>
notSock == <<demuxVars, resVars, sessVars>>
notRes == <<demuxVars, sockVars, sessVars>>
notSess == <<demuxVars, sockVars, resVars>>

-----------------------------------------------------------------------------
(* Bounds of the model *)

MaxFrames == 2
MaxPayload == 2
MaxTimeout == 2
MaxBody == 2
MaxMajor == 1
MaxMinor == 24

(* Program constant: docker.constants.STREAM_HEADER_SIZE_BYTES, the size of *)
(* the '>BxxxL' header (1 + 3 + 4 bytes).                                   *)
STREAM_HEADER_SIZE_BYTES == 8

-----------------------------------------------------------------------------
(* Helpers on byte strings *)

Min(a, b) == IF a < b THEN a ELSE b

\* Python slice s[a:b] for 0 <= a, with both ends clipped to len(s).
Slice(s, a, b) == SubSeq(s, Min(a, Len(s)) + 1, Min(b, Len(s)))

RECURSIVE Concat(_)
\* six.binary_type().join(chunks)
Concat(chunks) ==
    IF chunks = <<>> THEN <<>> ELSE Head(chunks) \o Concat(Tail(chunks))

\* Big-endian unsigned 32-bit field ('L' under '>').
BE32(n) ==
    << (n \div 16777216) % 256, (n \div 65536) % 256, (n \div 256) % 256, n % 256 >>

\* Faulty variant of unpack_length: reads the length field little-endian.
unpack_length_le(hdr) ==
    hdr[5] + 256 * hdr[6] + 65536 * hdr[7] + 16777216 * hdr[8]

\* struct.unpack('>BxxxL', header)[1]
unpack_length(hdr) ==
    16777216 * hdr[5] + 65536 * hdr[6] + 256 * hdr[7] + hdr[8]

\* struct.unpack('>BxxxL', header)[0], bound to _ and never used by the code
unpack_channel(hdr) == hdr[1]

-----------------------------------------------------------------------------
(* The daemon's side: frames and their wire encoding *)

\* The payloads sent: for each length n the bytes 97, 98, ... (n of them), so
\* that a byte out of place is seen.
Payloads == {[i \in 1..n |-> 96 + i] : n \in 0..MaxPayload}

Frame == [channel : {1, 2}, payload : Payloads]

FrameSeqs == UNION {[1..n -> Frame] : n \in 0..MaxFrames}

\* A wire fault: none, the last k bytes missing, frame `at` carrying a channel
\* id that is neither 1 nor 2, or frame `at` declaring `by` bytes too many.
Faults ==
    {[kind |-> "none", at |-> 0, by |-> 0]}
    \cup {[kind |-> "cut", at |-> 0, by |-> k] : k \in 1..STREAM_HEADER_SIZE_BYTES}
    \cup {[kind |-> "badchan", at |-> i, by |-> 0] : i \in 1..MaxFrames}
    \cup {[kind |-> "overlong", at |-> i, by |-> b] : i \in 1..MaxFrames, b \in {1, 256}}

\* [channel:1][reserved:3][length:4 big-endian] followed by the payload
EncodeFrame(channel, declared, payload) ==
    <<channel, 0, 0, 0>> \o BE32(declared) \o payload

RECURSIVE EncodeFrom(_, _, _)
EncodeFrom(fs, f, i) ==
    IF i > Len(fs) THEN <<>>
    ELSE EncodeFrame(IF f.kind = "badchan" /\ f.at = i THEN 3 ELSE fs[i].channel,
                     IF f.kind = "overlong" /\ f.at = i
                        THEN Len(fs[i].payload) + f.by
                        ELSE Len(fs[i].payload),
                     fs[i].payload)
         \o EncodeFrom(fs, f, i + 1)

\* The bytes on the wire for frames fs under fault f.
Wire(fs, f) ==
    LET all == EncodeFrom(fs, f, 1)
    IN  IF f.kind = "cut" THEN SubSeq(all, 1, Len(all) - f.by) ELSE all

\* The well-formed encoding.
Encode(fs) == Wire(fs, [kind |-> "none", at |-> 0, by |-> 0])

FaultApplies(fs, f) ==
    CASE f.kind = "none" -> TRUE
      [] f.kind = "cut" -> f.by <= Len(EncodeFrom(fs, f, 1))
      [] OTHER -> f.at <= Len(fs)

PayloadsOf(fs) == [i \in 1..Len(fs) |-> fs[i].payload]

NonEmpty(p) == p # <<>>

\* The HTTP chunks of a chunked body: a zero-size chunk ends the body, so
\* only non-empty chunks travel.
ChunksOf(fs) == SelectSeq(PayloadsOf(fs), NonEmpty)

-----------------------------------------------------------------------------
(* response.raw.read(amt): up to amt bytes, fewer only at end of stream *)

Read(amt) == Slice(wire, rpos, rpos + amt)

DemuxInit ==
    /\ mode \in {"buffered", "stream", "chunked"}
    /\ frames \in FrameSeqs
    /\ fault \in {f \in Faults : FaultApplies(frames, f)}
    /\ mode = "chunked" => fault.kind = "none"
    /\ wire = IF mode = "chunked" THEN Concat(ChunksOf(frames))
              ELSE Wire(frames, fault)
    /\ pc = "created"
    /\ walker = 0
    /\ rpos = 0
    /\ header = <<>>
    /\ length = 0
    /\ data = <<>>
    /\ yielded = <<>>
    /\ yieldHdr = <<>>
    /\ reads = 0
    /\ pulls = 0
    /\ pullReads = 0
    /\ cidx = 0
    /\ chunk_left = 0
    /\ joined = <<>>

\* header = buf[walker:walker + STREAM_HEADER_SIZE_BYTES]
buf_header(buf, w) == Slice(buf, w, w + STREAM_HEADER_SIZE_BYTES)

\* start = walker + STREAM_HEADER_SIZE_BYTES
frame_start(w) == w + STREAM_HEADER_SIZE_BYTES

\* end = start + length
frame_end(buf, w) == frame_start(w) + unpack_length(buf_header(buf, w))

\* buf[start:end], the chunk yielded for the frame at walker
buf_chunk(buf, w) == Slice(buf, frame_start(w), frame_end(buf, w))

RECURSIVE buffer_decode(_, _)
\* list(_multiplexed_buffer_helper(response)) for response.content = buf,
\* from walker w on: the whole loop of lines 313-321.
buffer_decode(buf, w) ==
    IF Len(buf) - w < STREAM_HEADER_SIZE_BYTES THEN <<>>
    ELSE <<buf_chunk(buf, w)>> \o buffer_decode(buf, frame_end(buf, w))

\* Faulty variant of after_header: a zero-length frame ends the stream.
after_header_break(len) == IF len = 0 THEN "done" ELSE "payload"

\* if not length: continue  -- back to the header read, else on to the payload
after_header(len) == IF len = 0 THEN "header" ELSE "payload"

\* Faulty variant of payload_request: the payload read also takes the next header.
payload_request_ahead(len) == len + STREAM_HEADER_SIZE_BYTES

\* the amount asked of response.raw.read for the payload: read(length)
payload_request(len) == len

\* What the ghost variable yieldHdr records of a header.
HdrInfo(hdr) == [channel |-> unpack_channel(hdr), length |-> unpack_length(hdr)]

(* ---- _multiplexed_buffer_helper (lines 307-321) ---- *)

\* buf = self._result(response, binary=True); buf_length = len(buf); walker = 0
BufStart ==
    /\ mode = "buffered" /\ pc = "created"
    /\ pc' = "loop"
    /\ walker' = 0
    /\ UNCHANGED notDemux
    /\ UNCHANGED <<mode, frames, fault, wire, rpos, header, length, data,
                   yielded, yieldHdr, reads, pulls, pullReads, cidx,
                   chunk_left, joined>>

\* if buf_length - walker < STREAM_HEADER_SIZE_BYTES: break
BufBreak ==
    /\ mode = "buffered" /\ pc = "loop"
    /\ Len(wire) - walker < STREAM_HEADER_SIZE_BYTES
    /\ pc' = "done"
    /\ UNCHANGED notDemux
    /\ UNCHANGED <<mode, frames, fault, wire, walker, rpos, header, length,
                   data, yielded, yieldHdr, reads, pulls, pullReads, cidx,
                   chunk_left, joined>>

\* header = buf[walker:walker + 8]; _, length = unpack; start = walker + 8;
\* end = start + length; walker = end; yield buf[start:end]
BufYield ==
    /\ mode = "buffered" /\ pc = "loop"
    /\ ~(Len(wire) - walker < STREAM_HEADER_SIZE_BYTES)
    /\ header' = buf_header(wire, walker)
    /\ length' = unpack_length(buf_header(wire, walker))
    /\ walker' = frame_end(wire, walker)
    /\ yielded' = Append(yielded, buf_chunk(wire, walker))
    /\ yieldHdr' = Append(yieldHdr, HdrInfo(buf_header(wire, walker)))
    /\ UNCHANGED notDemux
    /\ UNCHANGED <<mode, frames, fault, wire, pc, rpos, data, reads, pulls,
                   pullReads, cidx, chunk_left, joined>>

\* _get_result_tty, stream=False:
\* sep.join([x for x in self._multiplexed_buffer_helper(res)])
Join ==
    /\ mode = "buffered" /\ pc = "done"
    /\ joined' = Concat(yielded)
    /\ pc' = "joined"
    /\ UNCHANGED notDemux
    /\ UNCHANGED <<mode, frames, fault, wire, walker, rpos, header, length,
                   data, yielded, yieldHdr, reads, pulls, pullReads, cidx,
                   chunk_left>>

(* ---- the consumer of a lazy sequence ---- *)

\* next() on the generator: it runs from where it was suspended.  On the
\* first next() of _multiplexed_response_stream_helper lines 329-330 run
\* (_get_raw_response_socket, _disable_socket_timeout): no read is issued.
Pull ==
    /\ mode \in {"stream", "chunked"}
    /\ pc \in {"created", "suspended"}
    /\ pulls' = pulls + 1
    /\ pullReads' = 0
    /\ pc' = IF mode = "stream" THEN "header" ELSE "read1"
    /\ UNCHANGED notDemux
    /\ UNCHANGED <<mode, frames, fault, wire, walker, rpos, header, length,
                   data, yielded, yieldHdr, reads, cidx, chunk_left, joined>>

(* ---- _multiplexed_response_stream_helper (lines 332-342) ---- *)

\* header = response.raw.read(8); if not header: break
\* _, length = struct.unpack('>BxxxL', header)   (struct.error unless 8 bytes)
\* if not length: continue
ReadHeader ==
    /\ mode = "stream" /\ pc = "header"
    /\ LET hdr == Read(STREAM_HEADER_SIZE_BYTES)
       IN  /\ header' = hdr
           /\ rpos' = rpos + Len(hdr)
           /\ IF hdr = <<>>
                 THEN pc' = "done" /\ UNCHANGED length
                 ELSE IF Len(hdr) # STREAM_HEADER_SIZE_BYTES
                        THEN pc' = "raised" /\ UNCHANGED length
                        ELSE /\ length' = unpack_length(hdr)
                             /\ pc' = after_header(unpack_length(hdr))
    /\ reads' = reads + 1
    /\ pullReads' = pullReads + 1
    /\ UNCHANGED notDemux
    /\ UNCHANGED <<mode, frames, fault, wire, walker, data, yielded, yieldHdr,
                   pulls, cidx, chunk_left, joined>>

\* data = response.raw.read(length); if not data: break; yield data
ReadPayload ==
    /\ mode = "stream" /\ pc = "payload"
    /\ LET d == Read(payload_request(length))
       IN  /\ rpos' = rpos + Len(d)
           /\ IF d = <<>>
                 THEN pc' = "done" /\ UNCHANGED <<yielded, yieldHdr>>
                 ELSE /\ pc' = "suspended"
                      /\ yielded' = Append(yielded, d)
                      /\ yieldHdr' = Append(yieldHdr, HdrInfo(header))
    /\ reads' = reads + 1
    /\ pullReads' = pullReads + 1
    /\ UNCHANGED notDemux
    /\ UNCHANGED <<mode, frames, fault, wire, walker, header, length, data,
                   pulls, cidx, chunk_left, joined>>

(* ---- _stream_helper, chunked and decode=False (lines 293-301) ---- *)

\* data = reader.read(1); if not data: break
\* if reader._fp.chunk_left: (go on to read the rest) else: yield data
ReadOne ==
    /\ mode = "chunked" /\ pc = "read1"
    /\ LET d == Read(1)
           left == IF d = <<>> THEN 0 ELSE Len(ChunksOf(frames)[cidx + 1]) - 1
       IN  /\ rpos' = rpos + Len(d)
           /\ IF d = <<>>
                 THEN pc' = "done" /\ UNCHANGED <<data, cidx, chunk_left, yielded>>
                 ELSE /\ cidx' = cidx + 1
                      /\ chunk_left' = left
                      /\ data' = d
                      /\ IF left # 0
                            THEN pc' = "readrest" /\ UNCHANGED yielded
                            ELSE pc' = "suspended" /\ yielded' = Append(yielded, d)
    /\ reads' = reads + 1
    /\ pullReads' = pullReads + 1
    /\ UNCHANGED notDemux
    /\ UNCHANGED <<mode, frames, fault, wire, walker, header, length, yieldHdr,
                   pulls, joined>>

\* data += reader.read(reader._fp.chunk_left); yield data
ReadRest ==
    /\ mode = "chunked" /\ pc = "readrest"
    /\ LET d == data \o Read(chunk_left)
       IN  /\ rpos' = rpos + chunk_left
           /\ data' = d
           /\ yielded' = Append(yielded, d)
    /\ chunk_left' = 0
    /\ pc' = "suspended"
    /\ reads' = reads + 1
    /\ pullReads' = pullReads + 1
    /\ UNCHANGED notDemux
    /\ UNCHANGED <<mode, frames, fault, wire, walker, header, length, yieldHdr,
                   pulls, cidx, joined>>

NextDemux ==
    \/ BufStart \/ BufBreak \/ BufYield \/ Join
    \/ Pull \/ ReadHeader \/ ReadPayload \/ ReadOne \/ ReadRest

-----------------------------------------------------------------------------
(* _disable_socket_timeout (lines 367-393) *)

\* A timeout as gettimeout() reports it: None, or a number of seconds.
NoTimeout == [none |-> TRUE, secs |-> 0]
Seconds(n) == [none |-> FALSE, secs |-> n]

Timeouts == {NoTimeout} \cup {Seconds(n) : n \in 0..MaxTimeout}

\* A socket object: whether it has settimeout and gettimeout, and the timeout
\* in force on it.
SocketObjects == [present : {TRUE}, hasSet : BOOLEAN, hasGet : BOOLEAN, timeout : Timeouts]

\* getattr(socket, '_sock', None) when the socket has no _sock: None, which
\* has neither settimeout nor gettimeout.
NoSocket == [present |-> FALSE, hasSet |-> FALSE, hasGet |-> FALSE, timeout |-> NoTimeout]

SockInit ==
    /\ sockets \in [1..2 -> SocketObjects \cup {NoSocket}]
    /\ sockets[1].present
    /\ orig = sockets
    /\ sidx = 1

\* timeout = -1; if hasattr(s, 'gettimeout'): timeout = s.gettimeout()
timeout_seen(s) == IF s.hasGet THEN s.timeout ELSE Seconds(-1)

\* Faulty variant of timeout_disabled: only None counts as disabled, so a
\* non-blocking socket (0.0) is not spared.
timeout_disabled_none_only(t) == t.none

\* if timeout is None or timeout == 0.0: continue
timeout_disabled(t) == t.none \/ t.secs = 0

\* One iteration of `for s in sockets`.
DisableStep ==
    /\ sidx \in 1..2
    /\ LET s == sockets[sidx]
       IN  IF ~s.hasSet
             THEN UNCHANGED sockets                    \* no settimeout: continue
             ELSE IF timeout_disabled(timeout_seen(s))
                    THEN UNCHANGED sockets             \* already disabled: continue
                    ELSE sockets' = [sockets EXCEPT ![sidx].timeout = NoTimeout]
                                                     \* s.settimeout(None)
    /\ sidx' = sidx + 1
    /\ UNCHANGED orig
    /\ UNCHANGED notSock

NextSocket == DisableStep

-----------------------------------------------------------------------------
(* _raise_for_status and the result paths (lines 211-226, 263-283, 285-365) *)

\* The status codes a daemon answers with: success, client error, conflict
\* and server error.
Statuses == {200, 201, 204, 404, 409, 500}

\* The body as the pieces it can be handed over in.
Bodies == {[i \in 1..n |-> i] : n \in 0..MaxBody}

Responses == [status : Statuses, chunked : BOOLEAN, body : Bodies]

Calls ==
    {[fn |-> "_result", opt |-> o] : o \in {"text", "json", "binary"}}
    \cup {[fn |-> "_stream_helper", opt |-> o] : o \in {"decode", "plain"}}
    \cup {[fn |-> f, opt |-> "none"] :
            f \in {"_stream_raw_result_old", "_stream_raw_result",
                   "_multiplexed_buffer_helper",
                   "_multiplexed_response_stream_helper"}}
    \cup {[fn |-> "_read_from_socket", opt |-> o] : o \in {"stream", "join"}}

ResInit ==
    /\ resp \in Responses
    /\ call \in Calls
    /\ rpc = "called"
    /\ delivered = <<>>

\* response.raise_for_status() of requests raises HTTPError for a 4xx or 5xx
\* status and for no other; _raise_for_status turns it into an APIError.
raise_for_status(status) == 400 <= status /\ status < 600

\* _result: self._raise_for_status(response), then the json, content or text
ResultCall ==
    /\ rpc = "called" /\ call.fn = "_result"
    /\ IF raise_for_status(resp.status)
         THEN rpc' = "raised" /\ UNCHANGED delivered
         ELSE rpc' = "done" /\ delivered' = resp.body
    /\ UNCHANGED <<resp, call>>
    /\ UNCHANGED notRes

\* _stream_helper, response.raw._fp.chunked: with decode the chunks of
\* self._stream_helper(response, False) go through json_stream, without it
\* the read loop runs; neither branch looks at the status.
StreamHelperChunked ==
    /\ rpc = "called" /\ call.fn = "_stream_helper" /\ resp.chunked
    /\ rpc' = "open"
    /\ UNCHANGED <<resp, call, delivered>>
    /\ UNCHANGED notRes

\* _stream_helper, not chunked: yield self._result(response, json=decode)
StreamHelperPlain ==
    /\ rpc = "called" /\ call.fn = "_stream_helper" /\ ~resp.chunked
    /\ IF raise_for_status(resp.status)
         THEN rpc' = "raised" /\ UNCHANGED delivered
         ELSE rpc' = "done" /\ delivered' = resp.body
    /\ UNCHANGED <<resp, call>>
    /\ UNCHANGED notRes

\* _stream_raw_result_old: self._raise_for_status(response), then iter_lines
StreamRawResultOld ==
    /\ rpc = "called" /\ call.fn = "_stream_raw_result_old"
    /\ rpc' = IF raise_for_status(resp.status) THEN "raised" ELSE "open"
    /\ UNCHANGED <<resp, call, delivered>>
    /\ UNCHANGED notRes

\* _stream_raw_result: self._raise_for_status(response), then iter_content
StreamRawResult ==
    /\ rpc = "called" /\ call.fn = "_stream_raw_result"
    /\ rpc' = IF raise_for_status(resp.status) THEN "raised" ELSE "open"
    /\ UNCHANGED <<resp, call, delivered>>
    /\ UNCHANGED notRes

\* _multiplexed_buffer_helper: buf = self._result(response, binary=True)
MultiplexedBufferHelper ==
    /\ rpc = "called" /\ call.fn = "_multiplexed_buffer_helper"
    /\ rpc' = IF raise_for_status(resp.status) THEN "raised" ELSE "open"
    /\ UNCHANGED <<resp, call, delivered>>
    /\ UNCHANGED notRes

\* _multiplexed_response_stream_helper: _get_raw_response_socket(response)
\* begins with self._raise_for_status(response)
MultiplexedResponseStreamHelper ==
    /\ rpc = "called" /\ call.fn = "_multiplexed_response_stream_helper"
    /\ rpc' = IF raise_for_status(resp.status) THEN "raised" ELSE "open"
    /\ UNCHANGED <<resp, call, delivered>>
    /\ UNCHANGED notRes

\* _read_from_socket: _get_raw_response_socket(response), then frames_iter,
\* handed over lazily (stream) or joined
ReadFromSocket ==
    /\ rpc = "called" /\ call.fn = "_read_from_socket"
    /\ IF raise_for_status(resp.status)
         THEN rpc' = "raised" /\ UNCHANGED delivered
         ELSE IF call.opt = "stream"
                THEN rpc' = "open" /\ UNCHANGED delivered
                ELSE rpc' = "done" /\ delivered' = resp.body
    /\ UNCHANGED <<resp, call>>
    /\ UNCHANGED notRes

\* The consumer takes the next element of an open generator.
Deliver ==
    /\ rpc = "open" /\ Len(delivered) < Len(resp.body)
    /\ delivered' = Append(delivered, resp.body[Len(delivered) + 1])
    /\ UNCHANGED <<resp, call, rpc>>
    /\ UNCHANGED notRes

\* The generator is exhausted.
Exhaust ==
    /\ rpc = "open" /\ Len(delivered) = Len(resp.body)
    /\ rpc' = "done"
    /\ UNCHANGED <<resp, call, delivered>>
    /\ UNCHANGED notRes

NextResult ==
    \/ ResultCall \/ StreamHelperChunked \/ StreamHelperPlain
    \/ StreamRawResultOld \/ StreamRawResult \/ MultiplexedBufferHelper
    \/ MultiplexedResponseStreamHelper \/ ReadFromSocket
    \/ Deliver \/ Exhaust

-----------------------------------------------------------------------------
(* __init__ and _retrieve_server_version (lines 86-169) *)

\* A version "major.minor" as the pair of its numbers.
Versions == (0..MaxMajor) \X (0..MaxMinor)

\* version: None, 'auto', another string, or something that is no string
VersionArgs ==
    {[kind |-> k, v |-> <<0, 0>>] : k \in {"None", "auto", "nonstring"}}
    \cup {[kind |-> "explicit", v |-> v] : v \in Versions}

\* base_url: None, or an address of one of the schemes; "fd" stands for a
\* scheme parse_host rejects.
BaseArgs == {"None", "unix", "npipe", "tcp", "fd"}

\* tls: False, True or a TLSConfig
TlsArgs == {"False", "True", "TLSConfig"}

Unset == <<-1, -1>>
Unparsed == [scheme |-> "", rest |-> ""]
NoReply == [kind |-> "none", v |-> Unset]
NoCall == [op |-> "none", versioned |-> FALSE, path |-> <<>>, url |-> <<>>,
           stream |-> FALSE, is_tty |-> FALSE, handler |-> ""]

\* requests.Session() mounts its default adapter for both schemes.
DefaultAdapters == {<<"https://", "HTTPAdapter">>, <<"http://", "HTTPAdapter">>}

\* docker.constants.DEFAULT_DOCKER_API_VERSION ("Default: 1.24", line 78)
DEFAULT_DOCKER_API_VERSION == <<1, 24>>

\* docker.constants.MINIMUM_DOCKER_API_VERSION
MINIMUM_DOCKER_API_VERSION == <<1, 21>>

\* utils.compare_version(v1, v2): 0 if equal, -1 if v1 is the newer, 1 if v2 is
compare_version(v1, v2) ==
    IF v1 = v2 THEN 0
    ELSE IF v1[1] > v2[1] \/ (v1[1] = v2[1] /\ v1[2] > v2[2]) THEN -1
    ELSE 1

\* utils.version_lt(v1, v2)
version_lt(v1, v2) == compare_version(v1, v2) > 0

\* utils.parse_host(base_url, IS_WINDOWS_PLATFORM, tls=bool(tls)): the
\* address with its scheme normalised; "error" for a rejected scheme.
parse_host(addr, is_win32, tls) ==
    CASE addr = "None" /\ is_win32 -> [scheme |-> "npipe://", rest |-> "//./pipe/docker_engine"]
      [] addr = "None" /\ ~is_win32 -> [scheme |-> "http+unix://", rest |-> "var/run/docker.sock"]
      [] addr = "unix" -> [scheme |-> "http+unix://", rest |-> "var/run/docker.sock"]
      [] addr = "npipe" -> [scheme |-> "npipe://", rest |-> "//./pipe/docker_engine"]
      [] addr = "tcp" -> [scheme |-> IF tls THEN "https://" ELSE "http://",
                          rest |-> "127.0.0.1:2375"]
      [] OTHER -> [scheme |-> "error", rest |-> ""]

\* bool(tls)
TlsOn == args.tls # "False"

SessInit ==
    /\ args \in [base_url : BaseArgs, tls : TlsArgs, version : VersionArgs]
    /\ platform \in [windows : BOOLEAN, npipe_adapter : BOOLEAN]
    /\ ipc = "tls_check"
    /\ error = ""
    /\ parsed = Unparsed
    /\ base_url = ""
    /\ adapters = DefaultAdapters
    /\ api_version = Unset
    /\ reply = NoReply
    /\ netcalls = 0
    /\ warned = 0
    /\ lastCall = NoCall

\* if tls and not base_url
tls_without_base(tls, base) == tls # "False" /\ base = "None"

\* lines 91-100: raise TLSParameterError, or keep the arguments
InitTlsCheck ==
    /\ ipc = "tls_check"
    /\ IF tls_without_base(args.tls, args.base_url)
         THEN ipc' = "failed" /\ error' = "TLSParameterError"
         ELSE ipc' = "parse_host" /\ UNCHANGED error
    /\ UNCHANGED <<args, platform, parsed, base_url, adapters, api_version,
                   reply, netcalls, warned, lastCall>>
    /\ UNCHANGED notSess

\* lines 102-104: base_url = utils.parse_host(...), which raises
\* DockerException for an address it rejects
InitParseHost ==
    /\ ipc = "parse_host"
    /\ LET p == parse_host(args.base_url, platform.windows, TlsOn)
       IN  IF p.scheme = "error"
             THEN /\ ipc' = "failed" /\ error' = "DockerException: bind address"
                  /\ UNCHANGED parsed
             ELSE /\ ipc' = "adapter" /\ parsed' = p
                  /\ UNCHANGED error
    /\ UNCHANGED <<args, platform, base_url, adapters, api_version, reply,
                   netcalls, warned, lastCall>>
    /\ UNCHANGED notSess

\* lines 105-111: mount the UnixAdapter, unmount http:// and https://
InitAdapterUnix ==
    /\ ipc = "adapter" /\ parsed.scheme = "http+unix://"
    /\ adapters' = (adapters \cup {<<"http+docker://", "UnixAdapter">>})
                     \ {a \in adapters : a[1] \in {"http://", "https://"}}
    /\ base_url' = "http+docker://localunixsocket"
    /\ ipc' = "version"
    /\ UNCHANGED <<args, platform, error, parsed, api_version, reply, netcalls,
                   warned, lastCall>>
    /\ UNCHANGED notSess

\* Faulty variant of npipe_refused: the platform is not looked at.
npipe_refused_unchecked(windows, imported) == "no"

\* lines 113-124: why an npipe:// address is refused, "no" if it is not
npipe_refused(windows, imported) ==
    IF ~windows THEN "DockerException: npipe only on Windows"
    ELSE IF ~imported THEN "DockerException: install pypiwin32"
    ELSE "no"

\* lines 112-126: the platform checks, then mount the NpipeAdapter
InitAdapterNpipe ==
    /\ ipc = "adapter" /\ parsed.scheme = "npipe://"
    /\ LET why == npipe_refused(platform.windows, platform.npipe_adapter)
       IN  IF why # "no"
             THEN /\ ipc' = "failed" /\ error' = why
                  /\ UNCHANGED <<adapters, base_url>>
             ELSE /\ adapters' = adapters \cup {<<"http+docker://", "NpipeAdapter">>}
                  /\ base_url' = "http+docker://localnpipe"
                  /\ ipc' = "version"
                  /\ UNCHANGED error
    /\ UNCHANGED <<args, platform, parsed, api_version, reply, netcalls,
                   warned, lastCall>>
    /\ UNCHANGED notSess

\* lines 127-134: a TLSConfig configures the client (its SSLAdapter on
\* https://), tls=True mounts an SSLAdapter on https://
InitAdapterTcp ==
    /\ ipc = "adapter" /\ parsed.scheme \in {"http://", "https://"}
    /\ adapters' = IF TlsOn
                     THEN (adapters \ {a \in adapters : a[1] = "https://"})
                          \cup {<<"https://", "SSLAdapter">>}
                     ELSE adapters
    /\ base_url' = parsed.scheme \o parsed.rest
    /\ ipc' = "version"
    /\ UNCHANGED <<args, platform, error, parsed, api_version, reply, netcalls,
                   warned, lastCall>>
    /\ UNCHANGED notSess

\* lines 137-149: the version given, the default, discovery or an error
InitVersion ==
    /\ ipc = "version"
    /\ CASE args.version.kind = "None" ->
               /\ api_version' = DEFAULT_DOCKER_API_VERSION
               /\ ipc' = "warn" /\ UNCHANGED error
          [] args.version.kind = "auto" ->
               /\ ipc' = "discover" /\ UNCHANGED <<api_version, error>>
          [] args.version.kind = "explicit" ->
               /\ api_version' = args.version.v
               /\ ipc' = "warn" /\ UNCHANGED error
          [] OTHER ->
               /\ ipc' = "failed" /\ error' = "DockerException: version type"
               /\ UNCHANGED api_version
    /\ UNCHANGED <<args, platform, parsed, base_url, adapters, reply,
                   netcalls, warned, lastCall>>
    /\ UNCHANGED notSess

\* What the daemon may answer to GET /version: a JSON object with
\* ApiVersion, one without it, or a failure of the request.
Replies ==
    {[kind |-> "ok", v |-> v] : v \in Versions}
    \cup {[kind |-> k, v |-> Unset] : k \in {"no ApiVersion", "request failed"}}

\* _retrieve_server_version (lines 158-169):
\* self.version(api_version=False)["ApiVersion"], one request to the daemon
RetrieveServerVersion ==
    /\ ipc = "discover"
    /\ \E r \in Replies :
          /\ reply' = r
          /\ IF r.kind = "ok"
                THEN /\ api_version' = r.v /\ ipc' = "warn"
                     /\ UNCHANGED error
                ELSE /\ ipc' = "failed"
                     /\ error' = "DockerException: " \o r.kind
                     /\ UNCHANGED api_version
    /\ netcalls' = netcalls + 1
    /\ UNCHANGED <<args, platform, parsed, base_url, adapters, warned, lastCall>>
    /\ UNCHANGED notSess

\* lines 150-156: warn if the version is below the minimum supported
InitWarn ==
    /\ ipc = "warn"
    /\ warned' = IF version_lt(api_version, MINIMUM_DOCKER_API_VERSION)
                   THEN warned + 1 ELSE warned
    /\ ipc' = "ready"
    /\ UNCHANGED <<args, platform, error, parsed, base_url, adapters,
                   api_version, reply, netcalls, lastCall>>
    /\ UNCHANGED notSess

-----------------------------------------------------------------------------
(* _url (lines 193-209) and _get_result_tty (lines 399-418) *)

\* The path formats used and the arguments given for {0}; an argument is a
\* string or not.
PathFormats == {<<"/version">>, <<"/containers/", "{0}", "/json">>}
PathArgs == {[isstr |-> TRUE, text |-> t] : t \in {"abc", "a b", "a/b:c"}}
            \cup {[isstr |-> FALSE, text |-> "42"]}

\* six.moves.urllib.parse.quote_plus(arg, safe="/:")
quote_f(text) ==
    CASE text = "a b" -> "a+b"
      [] OTHER -> text

\* pathfmt.format(*args)
format_path(pathfmt, arg) ==
    [i \in 1..Len(pathfmt) |->
        IF pathfmt[i] = "{0}" THEN quote_f(arg.text) ELSE pathfmt[i]]

\* Faulty variant of build_url: the version prefix is left out.
build_url_unversioned(base, ver, path, versioned) == <<base>> \o path

\* '{0}/v{1}{2}'.format(self.base_url, self._version, path) or
\* '{0}{1}'.format(self.base_url, path)
build_url(base, ver, path, versioned) ==
    IF versioned THEN <<base, "/v", ver>> \o path ELSE <<base>> \o path

\* _url(pathfmt, arg, versioned_api=versioned)
Url ==
    /\ ipc = "ready"
    /\ \E pathfmt \in PathFormats, arg \in PathArgs, versioned \in BOOLEAN :
          lastCall' =
            IF ~arg.isstr
              THEN [NoCall EXCEPT !.op = "_url", !.versioned = versioned,
                                  !.handler = "ValueError"]
              ELSE [NoCall EXCEPT !.op = "_url", !.versioned = versioned,
                                  !.path = format_path(pathfmt, arg),
                                  !.url = build_url(base_url, api_version,
                                                    format_path(pathfmt, arg),
                                                    versioned)]
    /\ UNCHANGED <<args, platform, ipc, error, parsed, base_url, adapters,
                   api_version, reply, netcalls, warned>>
    /\ UNCHANGED notSess

\* Faulty variant of needs_old_streaming: the comparison is turned around.
needs_old_streaming_flipped(ver) == compare_version(<<1, 6>>, ver) > 0

\* if utils.compare_version('1.6', self._version) < 0
needs_old_streaming(ver) == compare_version(<<1, 6>>, ver) < 0

\* The helper _get_result_tty hands the response to.
select_handler(ver, stream, is_tty) ==
    IF needs_old_streaming(ver) THEN "_stream_raw_result_old"
    ELSE IF is_tty
      THEN IF stream THEN "_stream_raw_result" ELSE "_result(binary)"
    ELSE IF stream THEN "_multiplexed_response_stream_helper"
    ELSE "_multiplexed_buffer_helper"

\* _get_result_tty(stream, res, is_tty)
GetResultTty ==
    /\ ipc = "ready"
    /\ \E stream \in BOOLEAN, is_tty \in BOOLEAN :
          lastCall' = [NoCall EXCEPT !.op = "_get_result_tty",
                                     !.stream = stream, !.is_tty = is_tty,
                                     !.handler = select_handler(api_version,
                                                                stream, is_tty)]
    /\ UNCHANGED <<args, platform, ipc, error, parsed, base_url, adapters,
                   api_version, reply, netcalls, warned>>
    /\ UNCHANGED notSess

NextSession ==
    \/ InitTlsCheck \/ InitParseHost
    \/ InitAdapterUnix \/ InitAdapterNpipe \/ InitAdapterTcp
    \/ InitVersion \/ RetrieveServerVersion \/ InitWarn
    \/ Url \/ GetResultTty

-----------------------------------------------------------------------------
(* The values a group of variables keeps under the other specifications *)

DemuxIdle ==
    /\ mode = "idle" /\ frames = <<>> /\ fault = [kind |-> "none", at |-> 0, by |-> 0]
    /\ wire = <<>> /\ pc = "idle" /\ walker = 0 /\ rpos = 0 /\ header = <<>>
    /\ length = 0 /\ data = <<>> /\ yielded = <<>> /\ yieldHdr = <<>>
    /\ reads = 0 /\ pulls = 0 /\ pullReads = 0 /\ cidx = 0 /\ chunk_left = 0
    /\ joined = <<>>

SockIdle ==
    /\ sockets = <<>> /\ orig = <<>> /\ sidx = 0

ResIdle ==
    /\ resp = [status |-> 200, chunked |-> FALSE, body |-> <<>>]
    /\ call = [fn |-> "idle", opt |-> "none"]
    /\ rpc = "idle" /\ delivered = <<>>

SessIdle ==
    /\ args = [base_url |-> "None", tls |-> "False",
               version |-> [kind |-> "None", v |-> <<0, 0>>]]
    /\ platform = [windows |-> FALSE, npipe_adapter |-> FALSE]
    /\ ipc = "idle" /\ error = "" /\ parsed = Unparsed /\ base_url = ""
    /\ adapters = DefaultAdapters /\ api_version = Unset /\ reply = NoReply
    /\ netcalls = 0 /\ warned = 0 /\ lastCall = NoCall

InitDemux == DemuxInit /\ SockIdle /\ ResIdle /\ SessIdle
InitSocket == SockInit /\ DemuxIdle /\ ResIdle /\ SessIdle
InitResult == ResInit /\ DemuxIdle /\ SockIdle /\ SessIdle
InitSession == SessInit /\ DemuxIdle /\ SockIdle /\ ResIdle

SpecDemux == InitDemux /\ [][NextDemux]_vars
SpecSocket == InitSocket /\ [][NextSocket]_vars
SpecResult == InitResult /\ [][NextResult]_vars
SpecSession == InitSession /\ [][NextSession]_vars

-----------------------------------------------------------------------------
(* Properties of the demultiplexer, checked under SpecDemux *)

WellFormed == fault.kind = "none"

\* Index of the k-th frame of fs with a non-empty payload.
KthNonEmpty(fs, k) ==
    CHOOSE i \in 1..Len(fs) :
        /\ NonEmpty(fs[i].payload)
        /\ Len(SelectSeq(SubSeq(PayloadsOf(fs), 1, i), NonEmpty)) = k

\* Offset on the wire just after frame i of the well-formed encoding of fs.
EndOffset(fs, i) == Len(Encode(SubSeq(fs, 1, i)))

C2_ZeroLengthFrames ==
    /\ (mode = "buffered" /\ WellFormed /\ pc \in {"done", "joined"}) =>
          /\ Len(yielded) = Len(frames)
          /\ \A i \in 1..Len(frames) :
                frames[i].payload = <<>> => yielded[i] = <<>>
    /\ (mode = "stream" /\ WellFormed /\ pc = "done") =>
          /\ yielded = SelectSeq(PayloadsOf(frames), NonEmpty)
          /\ \A i \in 1..Len(yielded) : yielded[i] # <<>>

C2_Witness ==
    /\ mode = "stream" /\ WellFormed /\ pc = "done"
    /\ Len(frames) = 2
    /\ frames[1].payload = <<>> /\ frames[2].payload # <<>>
    /\ yielded = <<frames[2].payload>>

\* C2 (as claimed): in both decoding shapes every frame, a zero-length one
\* included, yields exactly one chunk, and decoding continues after it.
C2_EmptyChunkInBothModes ==
    (mode \in {"buffered", "stream"} /\ WellFormed
     /\ pc \in {"done", "joined"}) =>
        /\ Len(yielded) = Len(frames)
        /\ \A i \in 1..Len(frames) : yielded[i] = frames[i].payload

\* C3 (as claimed): a malformed or truncated header ends the sequence and
\* never raises; a header whose channel id is neither 1 nor 2 has no payload
\* emitted for it; in buffered mode the sequence ends with fewer than 8
\* residual bytes.
C3_MalformedEndsCleanly ==
    /\ pc # "raised"
    /\ \A i \in 1..Len(yieldHdr) : yieldHdr[i].channel \in {1, 2}
    /\ (mode = "buffered" /\ pc \in {"done", "joined"}) =>
          Len(wire) - walker < STREAM_HEADER_SIZE_BYTES

\* C4 (as claimed): in buffered mode every emitted payload has exactly the
\* declared number of bytes and walker never passes the end of the buffer.
C4_ExactDeclaredLength ==
    mode = "buffered" =>
        /\ \A i \in 1..Len(yielded) : Len(yielded[i]) = yieldHdr[i].length
        /\ walker <= Len(wire)

-----------------------------------------------------------------------------
(* Properties of _disable_socket_timeout, checked under SpecSocket *)

Returned == sidx = 3

FinitePositive(t) == ~t.none /\ t.secs > 0
NonBlocking(t) == ~t.none /\ t.secs = 0

-----------------------------------------------------------------------------
(* Properties of the result paths, checked under SpecResult *)

\* C5 (as claimed): on every result path a response whose status is not 2xx
\* is turned into an API error before any body data reaches the caller.
C5_NonSuccessAlwaysRaises ==
    ~(resp.status \in 200..299) =>
        /\ delivered = <<>>
        /\ rpc # "done"

-----------------------------------------------------------------------------
(* Properties of construction, URLs and mode selection, under SpecSession *)

\* a is an older version than b
VersionPrecedes(a, b) == a[1] < b[1] \/ (a[1] = b[1] /\ a[2] < b[2])

\* The stream mode a helper implements.
StreamMode(handler) ==
    CASE handler = "_stream_raw_result_old" -> "Legacy-Line"
      [] handler \in {"_stream_raw_result", "_result(binary)"} -> "Raw-Passthrough"
      [] handler \in {"_multiplexed_response_stream_helper",
                      "_multiplexed_buffer_helper"} -> "Multiplexed"
      [] OTHER -> "none"

\* C6: _get_result_tty picks exactly one mode from (version, is_tty):
\* Legacy-Line if and only if the version precedes 1.6, whatever is_tty;
\* otherwise Raw-Passthrough for a terminal target, with no frame decoding,
\* and Multiplexed frame decoding for any other target.
C6_ModeSelection ==
    lastCall.op = "_get_result_tty" =>
        /\ StreamMode(lastCall.handler) =
              IF VersionPrecedes(api_version, <<1, 6>>) THEN "Legacy-Line"
              ELSE IF lastCall.is_tty THEN "Raw-Passthrough"
              ELSE "Multiplexed"
        /\ ~VersionPrecedes(api_version, <<1, 6>>) =>
              lastCall.handler # "_stream_raw_result_old"
        /\ (lastCall.is_tty /\ ~VersionPrecedes(api_version, <<1, 6>>)) =>
              StreamMode(lastCall.handler) # "Multiplexed"

C6_Witness ==
    /\ lastCall.op = "_get_result_tty"
    /\ api_version = <<1, 6>>
    /\ ~lastCall.is_tty /\ lastCall.stream
    /\ lastCall.handler = "_multiplexed_response_stream_helper"

\* C7: construction that fails with a configuration error has sent no
\* request: with TLS asked for and no base address it fails with the TLS
\* parameter error before the address is parsed, an adapter is mounted or
\* the version is looked at; with an npipe:// address and no named-pipe
\* support it fails before version discovery, version='auto' included.
C7_ConfigErrorsBeforeNetwork ==
    /\ (args.tls # "False" /\ args.base_url = "None"
        /\ ipc \notin {"idle", "tls_check"}) =>
          /\ ipc = "failed" /\ error = "TLSParameterError"
          /\ netcalls = 0 /\ parsed = Unparsed
          /\ adapters = DefaultAdapters /\ api_version = Unset
    /\ (parsed.scheme = "npipe://"
        /\ ~(platform.windows /\ platform.npipe_adapter)
        /\ ipc # "adapter") =>
          /\ ipc = "failed"
          /\ error \in {"DockerException: npipe only on Windows",
                         "DockerException: install pypiwin32"}
          /\ netcalls = 0 /\ reply = NoReply /\ api_version = Unset
    /\ (ipc = "failed"
        /\ error \in {"TLSParameterError",
                       "DockerException: npipe only on Windows",
                       "DockerException: install pypiwin32"}) => netcalls = 0

C7_Witness ==
    /\ ipc = "failed"
    /\ error = "DockerException: npipe only on Windows"
    /\ args.base_url = "npipe" /\ args.version.kind = "auto"
    /\ netcalls = 0

\* The version construction resolves to, from the arguments and the reply.
Resolved ==
    CASE args.version.kind = "None" -> DEFAULT_DOCKER_API_VERSION
      [] args.version.kind = "explicit" -> args.version.v
      [] args.version.kind = "auto" -> reply.v
      [] OTHER -> Unset

\* C8: once construction has completed, api_version is the resolved version
\* (the one given, the default, or the ApiVersion of the discovery reply)
\* after any sequence of later calls, and a URL built by _url is base + "/v"
\* + that version + path unless versioned_api=False, which alone leaves the
\* prefix out.
C8_VersionWriteOnce ==
    ipc = "ready" =>
        /\ api_version = Resolved
        /\ api_version \in Versions
        /\ (lastCall.op = "_url" /\ lastCall.handler # "ValueError") =>
              lastCall.url =
                IF lastCall.versioned
                  THEN <<base_url, "/v", Resolved>> \o lastCall.path
                  ELSE <<base_url>> \o lastCall.path

C8_Witness ==
    /\ ipc = "ready"
    /\ args.version.kind = "auto" /\ reply = [kind |-> "ok", v |-> <<1, 23>>]
    /\ lastCall.op = "_url" /\ lastCall.versioned
    /\ lastCall.url = <<"http+docker://localunixsocket", "/v", <<1, 23>>,
                         "/containers/", "a+b", "/json">>

====
